---- MODULE Spec2Model ----
(***************************************************************************)
(* Electrode selection in the EEG visualisers of this repository:          *)
(*   electrode_clicking.py  module-level script, two topomaps and an       *)
(*                          overlay figure                                 *)
(*   integrated_code.py     EEGVisualizerWindow with a slider and a popup  *)
(*   final_diagram.py       EEGVisualizerWindow with a slider, an embedded *)
(*                          graph and a description table                  *)
(* A channel is identified by its position (1..NumCh) in                   *)
(* evoked.info['ch_names']; Python indices are 0-based and are kept so in  *)
(* the events (a pick carries event.ind[0]).                               *)
(***************************************************************************)
EXTENDS Integers, Sequences, FiniteSets, TLC

\* ------------------------------------------------------------- bounds
\* channels in evoked.info: one more than the palette, so colours wrap
NumCh == 19
\* len(evoked.times): the slider runs over 0 .. NumTimes - 1
NumTimes == 2
\* the leading channels of evoked.info that may be of a kind other than EEG
MaxOther == 1
\* the user clicks the first NumLow markers, the marker at the palette
\* position of 'red', and the last marker
NumLow == 2
\* the exploration stops moving the slider once the map axes hold this many
\* copies of an electrode's marker
MaxRedraws == 4

\* ------------------------------------------------------------- dataset
\* evoked.info['ch_names']
ch_names == [i \in 1..NumCh |-> i]

\* a name no channel of evoked.info carries (a channel_positions key the
\* amplitude data does not know)
UnknownName == NumCh + 1

\* the label field of an artist that takes no part in a legend
NoLabel == "_nolegend_"
\* the channel field of an artist or legend entry that belongs to no channel
NoChannel == 0

Variants == {"electrode_clicking", "integrated_code", "final_diagram"}

vibrant_colors ==
  << "blue", "green", "cyan", "magenta", "orange", "purple", "yellow",
     "lime", "pink", "teal", "gold", "red", "navy", "violet", "brown",
     "orchid", "turquoise", "crimson" >>

\* ------------------------------------------------------------- Python
\* list.index: the 1-based position of x in s, 0 when s.index(x) raises
RECURSIVE IndexFrom(_, _, _)
IndexFrom(s, x, k) ==
  IF k > Len(s) THEN 0
  ELSE IF s[k] = x THEN k
  ELSE IndexFrom(s, x, k + 1)

IndexOf(s, x) == IndexFrom(s, x, 1)

\* s[ind] with a Python index: negative indices count from the end
InRange(s, ind) == ind >= 0 - Len(s) /\ ind <= Len(s) - 1

Item(s, ind) == IF ind >= 0 THEN s[ind + 1] ELSE s[Len(s) + ind + 1]

\* an insertion-ordered dict is the sequence of its entries; each has .name
Keys(d) == {d[k].name : k \in 1..Len(d)}

DictDel(d, name) == SelectSeq(d, LAMBDA e : e.name # name)

\* d[name] = entry: a new key goes last, an old key keeps its place
DictSet(d, entry) ==
  IF entry.name \in Keys(d)
  THEN [k \in 1..Len(d) |-> IF d[k].name = entry.name THEN entry ELSE d[k]]
  ELSE Append(d, entry)

\* the channels of evoked.info['chs'] whose kind is FIFFV_EEG_CH, in order,
\* when the channels in `other` are of another kind
EEGNames(other) == SelectSeq(ch_names, LAMBDA c : c \notin other)

VARIABLES
  variant,                  \* which program runs
  channel_names,            \* the ordered list the markers are drawn from
  time_index,               \* time_slider.value()
  active_electrodes,        \* set of selected channel names
  selected_electrodes_data, \* dict name -> (times, channel_data)
  plotted_channels,         \* electrode_clicking: dict name -> (line, area)
  scatter_facecolor,        \* marker face colours of the last drawn frame
  graph_artists,            \* artists of the comparison axes, in draw order
  legend,                   \* entries of the comparison axes' legend
  description_table,        \* final_diagram: rows (name, text)
  view,                     \* comparison window: "none", "visible", "closed"
  error,                    \* exception the last handler raised, or "none"
  event,                    \* the event the last handler was called with
  slider_maximum,           \* time_slider.maximum()
  topomap,                  \* how many copies of each element the map axes hold
  first_plot,               \* time_slider: self.first_plot
  colorbar,                 \* self.colorbar / self.legend is not None
  colorbars,                \* colorbars the figure holds
  pick_callbacks,           \* callables registered for 'pick_event'
  pick_runs                 \* runs of on_pick in the last pick dispatch

vars == << variant, channel_names, time_index, active_electrodes,
           selected_electrodes_data, plotted_channels, scatter_facecolor,
           graph_artists, legend, description_table, view, error,
           event, slider_maximum, topomap, first_plot, colorbar, colorbars,
           pick_callbacks, pick_runs >>

\* the mutable part of the program state as one value
Self ==
  [ time_index |-> time_index,
    active_electrodes |-> active_electrodes,
    selected_electrodes_data |-> selected_electrodes_data,
    plotted_channels |-> plotted_channels,
    scatter_facecolor |-> scatter_facecolor,
    graph_artists |-> graph_artists,
    legend |-> legend,
    description_table |-> description_table,
    view |-> view,
    error |-> error,
    slider_maximum |-> slider_maximum,
    topomap |-> topomap,
    first_plot |-> first_plot,
    colorbar |-> colorbar,
    colorbars |-> colorbars,
    pick_callbacks |-> pick_callbacks,
    pick_runs |-> pick_runs ]

Become(s) ==
  /\ time_index' = s.time_index
  /\ active_electrodes' = s.active_electrodes
  /\ selected_electrodes_data' = s.selected_electrodes_data
  /\ plotted_channels' = s.plotted_channels
  /\ scatter_facecolor' = s.scatter_facecolor
  /\ graph_artists' = s.graph_artists
  /\ legend' = s.legend
  /\ description_table' = s.description_table
  /\ view' = s.view
  /\ error' = s.error
  /\ slider_maximum' = s.slider_maximum
  /\ topomap' = s.topomap
  /\ first_plot' = s.first_plot
  /\ colorbar' = s.colorbar
  /\ colorbars' = s.colorbars
  /\ pick_callbacks' = s.pick_callbacks
  /\ pick_runs' = s.pick_runs
  /\ UNCHANGED << variant, channel_names >>

\* ------------------------------------------------------------- colours
\* create_color_map (integrated_code, final_diagram): the palette by the
\* position of the name in self.channel_names
create_color_map(name) ==
  vibrant_colors[((IndexOf(channel_names, name) - 1) % Len(vibrant_colors)) + 1]

\* color_map of electrode_clicking: the palette by the position of the name
\* in evoked.info['ch_names']
script_color_map(name) ==
  vibrant_colors[((IndexOf(ch_names, name) - 1) % Len(vibrant_colors)) + 1]

\* the color_map of the running program
color_map(name) ==
  IF variant = "electrode_clicking" THEN script_color_map(name)
  ELSE create_color_map(name)

\* the keys of color_map
InColorMap(name) ==
  IF variant = "electrode_clicking" THEN IndexOf(ch_names, name) # 0
  ELSE IndexOf(channel_names, name) # 0

\* color_map.get(name, default)
color_map_get(name, default) ==
  IF InColorMap(name) THEN color_map(name) ELSE default

\* the face colours given to the scatter: the channel's colour when it is
\* active, 'red' otherwise, in the order of channel_names
FaceColors(active) ==
  [k \in 1..Len(channel_names) |->
     IF channel_names[k] \in active THEN color_map(channel_names[k])
     ELSE "red"]

\* ------------------------------------------------------------- artists
\* a fraction num / den
Rat(num, den) == [num |-> num, den |-> den]

\* the y data of an artist at one time index: a mean curve, and for a band
\* the square of the half-width around it
Curve(mean, spread2) == [mean |-> mean, spread2 |-> spread2]

Artist(kind, channel, color, label, x) ==
  [kind |-> kind, channel |-> channel, color |-> color, label |-> label,
   x |-> x, curve |-> Curve(Rat(0, 1), Rat(0, 1))]

WithCurve(artist, mean, spread2) ==
  [artist EXCEPT !.curve = Curve(mean, spread2)]

\* epochs.get_data()[:, channel_idx, t]: the values of one channel across
\* the epochs at one time index; the first channel has 1, 3, 5
epochs_data(channel_idx) == << channel_idx, 3 * channel_idx, 5 * channel_idx >>

RECURSIVE SumOf(_)
SumOf(values) ==
  IF values = << >> THEN 0 ELSE Head(values) + SumOf(Tail(values))

SquaresOf(values) == [k \in 1..Len(values) |-> values[k] * values[k]]

\* channel_data.mean(axis=0)
np_mean(values) == Rat(SumOf(values), Len(values))

\* the square of a standard deviation with the divisor n - 1
np_var_sample(values) ==
  LET n == Len(values)
  IN Rat(n * SumOf(SquaresOf(values)) - SumOf(values) * SumOf(values),
         n * (n - 1))

\* the square of channel_data.std(axis=0): numpy divides the sum of the
\* squared deviations from the mean by n
np_var(values) ==
  LET n == Len(values)
  IN Rat(n * SumOf(SquaresOf(values)) - SumOf(values) * SumOf(values),
         n * n)

\* evoked.data[channel_idx, t]: epochs.average() of the same data
evoked_data(channel_idx) == np_mean(epochs_data(channel_idx))

\* ax.legend(): one entry per labelled artist, in the order of the artists
RECURSIVE LegendOf(_)
LegendOf(artists) ==
  IF artists = << >> THEN << >>
  ELSE LET a == Head(artists)
           rest == LegendOf(Tail(artists))
       IN IF a.label = NoLabel THEN rest
          ELSE << [channel |-> a.channel, label |-> a.label] >> \o rest

\* ------------------------------------------------------------- map axes
\* the copies the map axes hold of: the contour layer, the marker and the
\* label of each electrode, the head outline, the nose
MapAxes(contours, markers, labels, outlines, noses) ==
  [contours |-> contours, markers |-> markers, labels |-> labels,
   outlines |-> outlines, noses |-> noses]

\* self.ax.clear(), mne.viz.plot_topomap and one scatter of the electrodes
ClearedTopomap == MapAxes(1, 1, 0, 0, 0)

\* a registry that takes the same callable again on every call
mpl_connect_always(callbacks, func) == Append(callbacks, func)

\* canvas.mpl_connect: the registry keeps one entry per callable; a callable
\* that is registered already is not registered again
mpl_connect(callbacks, func) ==
  IF \E k \in 1..Len(callbacks) : callbacks[k] = func THEN callbacks
  ELSE Append(callbacks, func)

\* ------------------------------------------------------------- final_diagram
\* the loop of update_graph: one line per entry of selected_electrodes_data
RECURSIVE GraphLines(_)
GraphLines(data) ==
  IF data = << >> THEN << >>
  ELSE << WithCurve(Artist("line", Head(data).name,
                          color_map_get(Head(data).name, "blue"), "name", 0),
                   evoked_data(Head(data).data), Rat(0, 1)) >>
       \o GraphLines(Tail(data))

\* the placeholder text of update_graph
GraphPlaceholder(data) ==
  IF data = << >>
  THEN << Artist("text", NoChannel, "gray", NoLabel, 0) >>
  ELSE << >>

update_graph(s) ==
  LET artists ==
        GraphPlaceholder(s.selected_electrodes_data)
        \o GraphLines(s.selected_electrodes_data)
        \o << Artist("span", NoChannel, "lightblue", "Pre-Stimulus", 0),
              Artist("span", NoChannel, "lightgreen", "Post-Stimulus", 0),
              Artist("cursor", NoChannel, "gray", NoLabel, s.time_index),
              Artist("vline", NoChannel, "red", "Stimulus", 0) >>
  IN [s EXCEPT !.graph_artists = artists, !.legend = LegendOf(artists)]

\* update_plot without its set_facecolor: the scatter keeps c='red'
update_plot_final_plain(s) ==
  update_graph([s EXCEPT !.topomap = ClearedTopomap,
                         !.scatter_facecolor = FaceColors({}),
                         !.pick_callbacks = mpl_connect(@, "on_pick")])

\* update_plot of final_diagram: the topomap and its markers, then the graph
update_plot_final(s) ==
  update_graph([s EXCEPT !.topomap = ClearedTopomap,
                         !.scatter_facecolor = FaceColors(s.active_electrodes),
                         !.pick_callbacks = mpl_connect(@, "on_pick")])

\* electrode_descriptions.get(name, ["No description available."]): the
\* channels of evoked.info are described except the last one
Described(name) == name \in 1..(NumCh - 1)

\* electrode_descriptions.get(channel_name, default) with no default line
electrode_descriptions_get_empty(name, default) ==
  IF Described(name) THEN << "description" >> ELSE << >>

\* electrode_descriptions.get(channel_name, default): the lines of the entry
electrode_descriptions_get(name, default) ==
  IF Described(name) THEN << "description" >> ELSE default

\* "\n".join of the lines, each behind a bullet
description_bullets(description) ==
  [k \in 1..Len(description) |-> << "bullet", description[k] >>]

DescriptionText(name) ==
  description_bullets(
    electrode_descriptions_get(name, << "No description available." >>))

\* a removal that leaves every row in the table
RemoveRows_none(table, name) == table

\* the rows of the table whose first column is not name
RemoveRows(table, name) == SelectSeq(table, LAMBDA r : r.name # name)

\* the deselect branch emptying the dict instead of deleting one key
Deselect_final_clears(s, name) ==
  [s EXCEPT !.active_electrodes = @ \ {name},
            !.selected_electrodes_data = << >>,
            !.description_table = RemoveRows(@, name)]

\* the deselect branch of on_pick
Deselect_final(s, name) ==
  [s EXCEPT !.active_electrodes = @ \ {name},
            !.selected_electrodes_data = DictDel(@, name),
            !.description_table = RemoveRows(@, name)]

\* the select branch of on_pick up to the lookup of the channel's data
SelectRow_final(s, name) ==
  [s EXCEPT !.active_electrodes = @ \cup {name},
            !.description_table =
               Append(@, [name |-> name, text |-> DescriptionText(name)])]

\* the select branch of on_pick after the lookup
Record_final(s, name) ==
  IF name \notin Keys(s.selected_electrodes_data)
     /\ name \in s.active_electrodes
  THEN [s EXCEPT !.selected_electrodes_data =
          DictSet(@, [name |-> name, data |-> IndexOf(ch_names, name),
                      band |-> FALSE])]
  ELSE s

on_pick_final(s, ind) ==
  IF ~InRange(channel_names, ind) THEN [s EXCEPT !.error = "IndexError"]
  ELSE
    LET name == Item(channel_names, ind) IN
    IF name \in s.active_electrodes
    THEN update_plot_final([Deselect_final(s, name) EXCEPT !.error = "none"])
    ELSE
      LET s1 == SelectRow_final(s, name) IN
      IF IndexOf(ch_names, name) = 0 THEN [s1 EXCEPT !.error = "ValueError"]
      ELSE update_plot_final([Record_final(s1, name) EXCEPT !.error = "none"])

\* ------------------------------------------------------------- integrated_code
\* update_plot of integrated_code: the topomap and its markers
update_plot_integrated(s) ==
  [s EXCEPT !.topomap = ClearedTopomap,
            !.colorbar = TRUE,
            !.colorbars = IF s.colorbar THEN @ ELSE @ + 1,
            !.scatter_facecolor = FaceColors(s.active_electrodes),
            !.pick_callbacks = mpl_connect(@, "on_pick")]

\* the loop of show_channel_popup: per entry a labelled mean line and an
\* unlabelled band of one standard deviation around it
RECURSIVE PopupArtists(_)
PopupArtists(data) ==
  IF data = << >> THEN << >>
  ELSE LET name == Head(data).name
           color == color_map_get(name, "blue")
           channel_data == epochs_data(Head(data).data)
       IN << WithCurve(Artist("line", name, color, "name", 0),
                       np_mean(channel_data), Rat(0, 1)),
             WithCurve(Artist("band", name, color, NoLabel, 0),
                       np_mean(channel_data), np_var(channel_data)) >>
          \o PopupArtists(Tail(data))

\* show_channel_popup: a popup is created when there is none or it was
\* closed; its axes are cleared and drawn from selected_electrodes_data
show_channel_popup(s) ==
  LET artists == PopupArtists(s.selected_electrodes_data)
  IN [s EXCEPT !.view = "visible",
               !.graph_artists = artists,
               !.legend = LegendOf(artists)]

\* the toggle without its `del self.selected_electrodes_data[channel_name]`
Toggle_integrated_keeps_data(s, name) ==
  IF name \in s.active_electrodes
  THEN [s EXCEPT !.active_electrodes = @ \ {name}]
  ELSE [s EXCEPT !.active_electrodes = @ \cup {name}]

\* the toggle at the head of on_pick
Toggle_integrated(s, name) ==
  IF name \in s.active_electrodes
  THEN [s EXCEPT !.active_electrodes = @ \ {name},
                 !.selected_electrodes_data = DictDel(@, name)]
  ELSE [s EXCEPT !.active_electrodes = @ \cup {name}]

\* the recording of the channel's data after the redraw
Record_integrated(s, name) ==
  IF name \notin Keys(s.selected_electrodes_data)
     /\ name \in s.active_electrodes
  THEN [s EXCEPT !.selected_electrodes_data =
          DictSet(@, [name |-> name, data |-> IndexOf(ch_names, name),
                      band |-> TRUE])]
  ELSE s

on_pick_integrated(s, ind) ==
  IF ~InRange(channel_names, ind) THEN [s EXCEPT !.error = "IndexError"]
  ELSE
    LET name == Item(channel_names, ind)
        s1 == update_plot_integrated(Toggle_integrated(s, name))
    IN IF IndexOf(ch_names, name) = 0 THEN [s1 EXCEPT !.error = "ValueError"]
       ELSE show_channel_popup(
              [Record_integrated(s1, name) EXCEPT !.error = "none"])

\* ------------------------------------------------------------- electrode_clicking
\* line.remove() and shaded_area.remove() of the popped channel
RemoveArtists(artists, name) ==
  SelectSeq(artists, LAMBDA a : a.channel # name)

\* the branch of on_pick for a channel that is plotted
Unplot_script(s, name) ==
  [s EXCEPT !.plotted_channels = DictDel(@, name),
            !.graph_artists = RemoveArtists(@, name),
            !.active_electrodes = @ \ {name}]

\* the branch of on_pick for a channel that is not plotted
Plot_script(s, name) ==
  LET color == color_map_get(name, "gray")
      channel_data == epochs_data(IndexOf(ch_names, name))
  IN
  [s EXCEPT !.graph_artists =
              @ \o << WithCurve(Artist("line", name, color, "(Avg)", 0),
                                np_mean(channel_data), Rat(0, 1)),
                      WithCurve(Artist("band", name, color, "(+-1 SD)", 0),
                                np_mean(channel_data), np_var(channel_data)) >>,
            !.plotted_channels =
              DictSet(@, [name |-> name, data |-> IndexOf(ch_names, name),
                          band |-> TRUE]),
            !.active_electrodes = @ \cup {name}]

\* the redraw without its overlay_ax.legend()
Redraw_script_no_legend(s) ==
  [s EXCEPT !.scatter_facecolor = FaceColors(s.active_electrodes)]

\* set_facecolor on both scatters, then the legend and the redraw
Redraw_script(s) ==
  [s EXCEPT !.scatter_facecolor = FaceColors(s.active_electrodes),
            !.legend = LegendOf(s.graph_artists)]

on_pick_script(s, ind) ==
  IF ~InRange(channel_names, ind) THEN [s EXCEPT !.error = "IndexError"]
  ELSE
    LET name == Item(channel_names, ind) IN
    IF IndexOf(ch_names, name) = 0 THEN [s EXCEPT !.error = "ValueError"]
    ELSE
      LET s1 == [s EXCEPT !.view = "visible", !.error = "none"]
          s2 == IF name \in Keys(s1.plotted_channels)
                THEN Unplot_script(s1, name)
                ELSE Plot_script(s1, name)
      IN Redraw_script(s2)

\* ------------------------------------------------------------- time_slider
\* self.time_points of initialize_sample_data
time_points == 100

\* the maximum __init__ gives the slider before the data exists
InitialSliderMaximum == 100

\* the electrodes of initialize_channel_positions
SliderChannels == 19

\* QSlider.setMaximum: a value above the new maximum is clamped to it
\* (no slot runs here: the value is 0 when __init__ calls it)
setMaximum(s, maximum) ==
  [s EXCEPT !.slider_maximum = maximum,
            !.time_index = IF @ > maximum THEN maximum ELSE @]

\* initialize_sample_data without its setMaximum
initialize_sample_data_no_maximum(s) == s

\* initialize_sample_data: the data of time_points samples, then the
\* slider's maximum
initialize_sample_data(s) == setMaximum(s, time_points - 1)

\* the head of update_plot: the first call clears the axes, a later call
\* removes the collections of the last contour only
RemoveOld_slider(s) ==
  IF ~s.first_plot
  THEN [s EXCEPT !.topomap.contours = IF @ > 0 THEN @ - 1 ELSE @]
  ELSE [s EXCEPT !.topomap = MapAxes(0, 0, 0, 0, 0), !.first_plot = FALSE]

\* the colorbar of update_plot made on every call
Colorbar_slider_always(s) ==
  [s EXCEPT !.colorbar = TRUE, !.colorbars = @ + 1]

\* the colorbar of update_plot: made when self.colorbar is None, updated
\* otherwise
Colorbar_slider(s) ==
  IF ~s.colorbar THEN [s EXCEPT !.colorbar = TRUE, !.colorbars = @ + 1]
  ELSE s

\* `if self.first_plot or True`: a marker and a label per electrode, the
\* head outline and the nose are added on every call
Static_slider(s) ==
  [s EXCEPT !.topomap.markers = @ + 1,
            !.topomap.labels = @ + 1,
            !.topomap.outlines = @ + 1,
            !.topomap.noses = @ + 1]

\* update_plot of time_slider at the slider's value
update_plot_slider(s) ==
  LET s1 == RemoveOld_slider(s) IN
  IF s.time_index > time_points - 1 THEN [s1 EXCEPT !.error = "IndexError"]
  ELSE Static_slider(Colorbar_slider(
         [s1 EXCEPT !.topomap.contours = @ + 1, !.error = "none"]))

\* ------------------------------------------------------------- events
on_pick_result(s, ind) ==
  CASE variant = "electrode_clicking" -> on_pick_script(s, ind)
    [] variant = "integrated_code" -> on_pick_integrated(s, ind)
    [] variant = "final_diagram" -> on_pick_final(s, ind)

\* the slider connected to initialize_plot, which resets active_electrodes
\* before it calls update_plot
update_plot_result_reset(s, value) ==
  CASE variant = "integrated_code" ->
         update_plot_integrated([s EXCEPT !.time_index = value,
                                          !.active_electrodes = {},
                                          !.error = "none"])
    [] variant = "final_diagram" ->
         update_plot_final([s EXCEPT !.time_index = value, !.error = "none"])
    [] variant = "time_slider" ->
         update_plot_slider([s EXCEPT !.time_index = value, !.error = "none"])

\* the slot of time_slider.valueChanged: the slider holds value, update_plot
update_plot_result(s, value) ==
  CASE variant = "integrated_code" ->
         update_plot_integrated([s EXCEPT !.time_index = value, !.error = "none"])
    [] variant = "final_diagram" ->
         update_plot_final([s EXCEPT !.time_index = value, !.error = "none"])
    [] variant = "time_slider" ->
         update_plot_slider([s EXCEPT !.time_index = value, !.error = "none"])

\* the state after construction (__init__ and initialize_plot, or the
\* module body of electrode_clicking)
Constructed ==
  LET s0 == [ time_index |-> 0,
              active_electrodes |-> {},
              selected_electrodes_data |-> << >>,
              plotted_channels |-> << >>,
              scatter_facecolor |-> FaceColors({}),
              graph_artists |-> << >>,
              legend |-> << >>,
              description_table |-> << >>,
              view |-> "none",
              error |-> "none",
              slider_maximum |-> NumTimes - 1,
              topomap |-> MapAxes(0, 0, 0, 0, 0),
              first_plot |-> TRUE,
              colorbar |-> FALSE,
              colorbars |-> 0,
              pick_callbacks |-> << >>,
              pick_runs |-> 0 ]
  IN CASE variant = "electrode_clicking" ->
            [s0 EXCEPT !.slider_maximum = 0,
                       !.topomap = ClearedTopomap,
                       !.colorbars = 1,
                       !.pick_callbacks = mpl_connect(@, "on_pick")]
       [] variant = "integrated_code" -> update_plot_integrated(s0)
       [] variant = "final_diagram" ->
            update_plot_final([s0 EXCEPT !.view = "visible"])
       [] variant = "time_slider" ->
            update_plot_slider(initialize_sample_data(
              [s0 EXCEPT !.slider_maximum = InitialSliderMaximum,
                         !.scatter_facecolor = << >>]))

IsConstructed ==
  LET s == Constructed IN
  /\ time_index = s.time_index
  /\ active_electrodes = s.active_electrodes
  /\ selected_electrodes_data = s.selected_electrodes_data
  /\ plotted_channels = s.plotted_channels
  /\ scatter_facecolor = s.scatter_facecolor
  /\ graph_artists = s.graph_artists
  /\ legend = s.legend
  /\ description_table = s.description_table
  /\ view = s.view
  /\ error = s.error
  /\ slider_maximum = s.slider_maximum
  /\ topomap = s.topomap
  /\ first_plot = s.first_plot
  /\ colorbar = s.colorbar
  /\ colorbars = s.colorbars
  /\ pick_callbacks = s.pick_callbacks
  /\ pick_runs = s.pick_runs

\* the program as started by its own main: channel_names are the EEG
\* channels of evoked.info
Event(type, arg) == [type |-> type, arg |-> arg]

Init ==
  /\ variant \in Variants
  /\ \E other \in SUBSET (1..MaxOther) : channel_names = EEGNames(other)
  /\ IsConstructed
  /\ event = Event("none", 0)

\* the indices a pick event of the scatter can carry
MarkerInds == 0..(Len(channel_names) - 1)

\* the markers the user clicks
ClickInds ==
  MarkerInds \cap ((0..(NumLow - 1))
                   \cup {IndexOf(vibrant_colors, "red") - 1,
                          Len(channel_names) - 1})

\* CallbackRegistry.process: every callable registered when the event
\* arrives runs once, in the order of registration
RECURSIVE process(_, _, _)
process(s, callbacks, ind) ==
  IF callbacks = << >> THEN s
  ELSE process([on_pick_result(s, ind) EXCEPT !.pick_runs = @ + 1],
               Tail(callbacks), ind)

\* the state after a pick event with event.ind[0] = ind
pick_event(s, ind) == process([s EXCEPT !.pick_runs = 0], s.pick_callbacks, ind)

\* a pick event with event.ind[0] = ind reaches on_pick
on_pick(ind) ==
  /\ variant \in Variants
  /\ Become(pick_event(Self, ind))
  /\ event' = Event("pick", ind)

\* the values the user moves the slider to: the first NumTimes and the
\* slider's maximum
SlideValues == ((0..(NumTimes - 1)) \cup {slider_maximum}) \cap (0..slider_maximum)

\* the user moves the slider to another value
slider_valueChanged(value) ==
  /\ variant \in {"integrated_code", "final_diagram", "time_slider"}
  /\ variant = "time_slider" => topomap.markers < MaxRedraws
  /\ value # time_index
  /\ Become(update_plot_result(Self, value))
  /\ event' = Event("slider", value)

\* the user closes the popup of integrated_code
close_popup ==
  /\ variant = "integrated_code"
  /\ view = "visible"
  /\ view' = "closed"
  /\ event' = Event("close", 0)
  /\ UNCHANGED << variant, channel_names, time_index, active_electrodes,
                  selected_electrodes_data, plotted_channels,
                  scatter_facecolor, graph_artists, legend,
                  description_table, error, slider_maximum, topomap,
                  first_plot, colorbar, colorbars, pick_callbacks,
                  pick_runs >>

Next ==
  \/ \E ind \in ClickInds : on_pick(ind)
  \/ \E value \in SlideValues : slider_valueChanged(value)
  \/ close_popup

Spec == Init /\ [][Next]_vars

\* time_slider.py as started by its own main
InitSlider ==
  /\ variant = "time_slider"
  /\ channel_names = [i \in 1..SliderChannels |-> i]
  /\ IsConstructed
  /\ event = Event("none", 0)

\* all four programs
SpecAll == (Init \/ InitSlider) /\ [][Next]_vars

\* ------------------------------------------------------------- faults
\* indices no marker of the scatter has: one before the first, one past
\* the last, and one below the negative range
FaultInds == {0 - 1, Len(channel_names), 0 - Len(channel_names) - 1}

\* the window classes take channel_positions as an argument: here it may
\* name a channel the amplitude data does not have
InitFault ==
  /\ variant \in Variants
  /\ \/ channel_names = EEGNames({})
     \/ /\ variant \in {"integrated_code", "final_diagram"}
        /\ channel_names = EEGNames({}) \o << UnknownName >>
  /\ IsConstructed
  /\ event = Event("none", 0)

NextFault ==
  \/ Next
  \/ \E ind \in FaultInds : on_pick(ind)

SpecFault == InitFault /\ [][NextFault]_vars

\* ------------------------------------------------------------- views
\* the dict of recorded traces of the running program
Recorded ==
  IF variant = "electrode_clicking" THEN plotted_channels
  ELSE selected_electrodes_data

\* the channels of the artists of one kind, in draw order
ChannelsOf(artists, kind) ==
  LET sel == SelectSeq(artists, LAMBDA a : a.kind = kind)
  IN [k \in 1..Len(sel) |-> sel[k].channel]

SeqRange(s) == {s[k] : k \in 1..Len(s)}

NoRepeat(s) == Cardinality(SeqRange(s)) = Len(s)

\* the channels that have an entry in a legend
LegendChannels(entries) ==
  {entries[k].channel : k \in 1..Len(entries)} \ {NoChannel}

\* the entries of a dict under one key
TraceOf(d, name) == {d[k] : k \in {j \in 1..Len(d) : d[j].name = name}}

\* what the user sees: markers, comparison axes, legend, table
Rendered(s) ==
  << s.scatter_facecolor, s.graph_artists, s.legend, s.description_table >>

HasPlaceholder(artists) == \E k \in 1..Len(artists) : artists[k].kind = "text"

\* the last event was a pick of a marker of the scatter
Picked == event.type = "pick" /\ event.arg \in MarkerInds

\* the channel that pick named
PickedName == channel_names[event.arg + 1]

\* a pick that names a channel of the amplitude data
ValidPick(ind) ==
  /\ ind \in MarkerInds
  /\ IndexOf(ch_names, channel_names[ind + 1]) # 0

\* ------------------------------------------------------------- claims
\* C1: in every variant the channels whose trace is recorded, and the
\* channels whose trace is drawn in the comparison view, are exactly the
\* active electrodes, each once.
C1_TracesEqualSelection ==
  /\ Keys(Recorded) = active_electrodes
  /\ NoRepeat([k \in 1..Len(Recorded) |-> Recorded[k].name])
  /\ SeqRange(ChannelsOf(graph_artists, "line")) = active_electrodes
  /\ NoRepeat(ChannelsOf(graph_artists, "line"))
  /\ SeqRange(ChannelsOf(graph_artists, "band")) \subseteq active_electrodes

\* a pick has just deselected a channel while two others stay selected,
\* recorded and drawn
C1_Witness ==
  /\ Picked
  /\ PickedName \notin active_electrodes
  /\ Cardinality(active_electrodes) >= 2
  /\ Len(Recorded) >= 2
  /\ Len(ChannelsOf(graph_artists, "line")) >= 2

\* C2: a pick of a valid marker flips the membership of its channel and
\* the presence of its trace, and leaves every other channel's membership
\* and recorded trace, and the time cursor, as they were.
C2_PickTogglesOnlyPicked ==
  [][(Picked' /\ ValidPick(event'.arg)) =>
         LET c == PickedName' IN
         /\ active_electrodes' =
              (active_electrodes \ {c}) \cup ({c} \ active_electrodes)
         /\ (c \in active_electrodes') <=> (TraceOf(Recorded', c) # {})
         /\ (c \in active_electrodes) <=> (TraceOf(Recorded, c) # {})
         /\ \A d \in SeqRange(channel_names) \ {c} :
              TraceOf(Recorded', d) = TraceOf(Recorded, d)
         /\ time_index' = time_index
         /\ error' = "none"]_vars

\* a pick has just selected a channel beside another one, away from the
\* first time slice
C2_Witness ==
  /\ Picked
  /\ PickedName \in active_electrodes
  /\ Cardinality(active_electrodes) >= 2
  /\ TraceOf(Recorded, PickedName) # {}
  /\ time_index # 0

\* C3: picking the same marker twice in succession gives back the prior
\* selection and the prior rendered output, the order of traces, legend
\* entries and table rows included.
C3_DoubleToggleRestores ==
  \A ind \in MarkerInds :
    LET twice == on_pick_result(on_pick_result(Self, ind), ind) IN
    /\ twice.active_electrodes = active_electrodes
    /\ Rendered(twice) = Rendered(Self)

\* C4: the marker colours of the last drawn frame are those of the current
\* selection: the channel's colour when it is active, 'red' otherwise.
C4_MarkersReflectSelection ==
  /\ Len(scatter_facecolor) = Len(channel_names)
  /\ \A k \in 1..Len(channel_names) :
       scatter_facecolor[k] =
         IF channel_names[k] \in active_electrodes
         THEN color_map(channel_names[k])
         ELSE "red"

\* a frame drawn by a slider move shows a coloured marker
C4_Witness ==
  /\ event.type = "slider"
  /\ active_electrodes # {}
  /\ \E k \in 1..Len(channel_names) :
       /\ channel_names[k] \in active_electrodes
       /\ scatter_facecolor[k] # "red"

\* C5: a marker is drawn in the default colour 'red' exactly when its
\* channel is not selected.
C5_DefaultColourIffUnselected ==
  \A k \in 1..Len(scatter_facecolor) :
    (scatter_facecolor[k] = "red") <=> (channel_names[k] \notin active_electrodes)

\* C6: a pick whose index is outside the channel list, or whose channel is
\* not in the amplitude data, raises nothing and changes nothing.
C6_InvalidPickIgnored ==
  [][(Picked' /\ ~ValidPick(event'.arg)) =>
         /\ error' = "none"
         /\ active_electrodes' = active_electrodes
         /\ Recorded' = Recorded
         /\ description_table' = description_table
         /\ time_index' = time_index
         /\ Rendered(Self)' = Rendered(Self)]_vars

\* C7: a slider move leaves the selection, the recorded traces and the
\* traces drawn in the comparison view as they were.
C7_SliderKeepsSelection ==
  [][(event'.type = "slider") =>
         /\ active_electrodes' = active_electrodes
         /\ Recorded' = Recorded
         /\ ChannelsOf(graph_artists', "line") = ChannelsOf(graph_artists, "line")
         /\ time_index' = event'.arg]_vars

\* the slider has just moved while two channels are selected
C7_Witness ==
  /\ event.type = "slider"
  /\ time_index = event.arg
  /\ Cardinality(active_electrodes) >= 2
  /\ SeqRange(ChannelsOf(graph_artists, "line")) = active_electrodes

\* C8: the colour of the channel behind marker index i is
\* palette[i mod paletteLength], on its marker and on its trace.
C8_ColourByMarkerIndex ==
  \A k \in 1..Len(channel_names) :
    LET expected == vibrant_colors[((k - 1) % Len(vibrant_colors)) + 1] IN
    channel_names[k] \in active_electrodes =>
      /\ scatter_facecolor[k] = expected
      /\ \A j \in 1..Len(graph_artists) :
           graph_artists[j].channel = channel_names[k] =>
             graph_artists[j].color = expected

\* C9: once the comparison view exists, it shows the 'no selection'
\* placeholder exactly when no channel is selected.
C9_PlaceholderIffEmpty ==
  view # "none" =>
    ((active_electrodes = {}) <=> HasPlaceholder(graph_artists))

\* C10: the legend of the comparison view has an entry for every selected
\* channel and none for any other channel.
C10_LegendOfSelection ==
  LegendChannels(legend) = active_electrodes

\* a pick has just deselected a channel and the legend lists the two
\* channels that stay selected
C10_Witness ==
  /\ Picked
  /\ PickedName \notin active_electrodes
  /\ Cardinality(LegendChannels(legend)) >= 2

\* C11: the order of the traces, of the legend's channel entries and of the
\* table rows is the order of the selected channels in the channel list,
\* whatever the order of the clicks.
C11_DatasetOrder ==
  LET expected == SelectSeq(channel_names, LAMBDA c : c \in active_electrodes)
      entries == SelectSeq(legend, LAMBDA e : e.channel # NoChannel
                                             /\ e.label # "(+-1 SD)")
  IN /\ ChannelsOf(graph_artists, "line") = expected
     /\ [k \in 1..Len(entries) |-> entries[k].channel] = expected
     /\ variant = "final_diagram" =>
          [k \in 1..Len(description_table) |-> description_table[k].name]
            = expected

\* C12: the time cursor is an index of the time axis in every state, in
\* time_slider too, and no update_plot fails on its index.
C12_CursorInRange ==
  LET length == IF variant = "time_slider" THEN time_points ELSE NumTimes
  IN /\ time_index \in 0..(length - 1)
     /\ slider_maximum <= length - 1
     /\ event.type = "slider" => error = "none"

\* the slider of time_slider has just been moved to its maximum
C12_Witness ==
  /\ variant = "time_slider"
  /\ event.type = "slider"
  /\ time_index = slider_maximum
  /\ time_index = time_points - 1

\* C13: with per-epoch data (electrode_clicking, integrated_code) the
\* curve of a selected channel is the mean across epochs and its band lies
\* one standard deviation s to either side; for epoch values c, 3c, 5c
\* the mean is 3c and s squared is 8c^2 / 3 (3.0 and 8/3 for 1, 3, 5).
C13_MeanAndBand ==
  variant \in {"electrode_clicking", "integrated_code"} =>
    \A k \in 1..Len(graph_artists) :
      LET a == graph_artists[k]
          c == a.channel
      IN /\ a.kind \in {"line", "band"} =>
              a.curve.mean.num = 3 * c * a.curve.mean.den
         /\ a.kind = "band" =>
              3 * a.curve.spread2.num = 8 * c * c * a.curve.spread2.den
         /\ a.kind = "line" =>
              \E j \in 1..Len(graph_artists) :
                /\ graph_artists[j].kind = "band"
                /\ graph_artists[j].channel = c

\* a pick has just selected the channel with epoch values 1, 3, 5 and its
\* line and band are drawn
C13_Witness ==
  /\ variant \in {"electrode_clicking", "integrated_code"}
  /\ Picked
  /\ PickedName = 1
  /\ \E k \in 1..Len(graph_artists) :
       /\ graph_artists[k].kind = "band"
       /\ graph_artists[k].channel = 1
       /\ graph_artists[k].curve.mean = Rat(9, 3)
       /\ graph_artists[k].curve.spread2 = Rat(24, 9)

\* C14: in time_slider the axes hold exactly one contour layer and exactly
\* one copy of each static element (the markers and labels of the
\* electrodes, the head outline, the nose), however often the slider moved.
C14_OneCopyOfStatics ==
  variant = "time_slider" => topomap = MapAxes(1, 1, 1, 1, 1)

\* C15: in final_diagram a pick that selects a channel without an entry in
\* electrode_descriptions completes without an error: the channel becomes
\* active, its trace is recorded, and its row of the table shows the one
\* (bulleted) line 'No description available.'.
C15_PlaceholderDescription ==
  [][(/\ variant = "final_diagram"
      /\ event'.type = "pick"
      /\ event'.arg \in MarkerInds
      /\ ~Described(channel_names[event'.arg + 1])
      /\ channel_names[event'.arg + 1] \notin active_electrodes)
     => LET name == channel_names[event'.arg + 1] IN
        /\ error' = "none"
        /\ name \in active_electrodes'
        /\ TraceOf(selected_electrodes_data', name) # {}
        /\ \E k \in 1..Len(description_table') :
             /\ description_table'[k].name = name
             /\ description_table'[k].text =
                  << << "bullet", "No description available." >> >>]_vars

\* a pick has just selected the channel without a description, beside a
\* described one
C15_Witness ==
  /\ variant = "final_diagram"
  /\ Picked
  /\ ~Described(PickedName)
  /\ PickedName \in active_electrodes
  /\ Len(description_table) = 2
  /\ description_table[2].name = PickedName
  /\ description_table[1].text = << << "bullet", "description" >> >>

\* C16: in integrated_code and final_diagram update_plot connects on_pick
\* on every render, yet a pick of one marker runs the toggle exactly once:
\* one callback is registered, and the membership of the picked channel
\* flips once, after any number of slider moves and picks.
C16_OneTogglePerPick ==
  [][(/\ variant \in {"integrated_code", "final_diagram"}
      /\ event'.type = "pick"
      /\ event'.arg \in MarkerInds)
     => LET name == channel_names[event'.arg + 1] IN
        /\ Len(pick_callbacks) = 1
        /\ pick_runs' = 1
        /\ (name \in active_electrodes') <=> (name \notin active_electrodes)
        /\ active_electrodes' \ {name} = active_electrodes \ {name}]_vars

\* after renders by a slider move and by earlier picks, a pick has just
\* deselected one of two selected channels
C16_Witness ==
  /\ variant \in {"integrated_code", "final_diagram"}
  /\ Picked
  /\ pick_runs = 1
  /\ Len(pick_callbacks) = 1
  /\ time_index # 0
  /\ PickedName \notin active_electrodes
  /\ Cardinality(active_electrodes) = 1

\* C17: in final_diagram, after every pick handler the description table
\* has exactly one row per selected channel and no row for an unselected
\* one: its first column, as a multiset, is the selection.
C17_RowsAreSelection ==
  variant = "final_diagram" =>
    LET names == [k \in 1..Len(description_table) |->
                    description_table[k].name]
    IN /\ NoRepeat(names)
       /\ SeqRange(names) = active_electrodes

\* a pick has just deselected one of two selected channels; the row of the
\* other one remains
C17_Witness ==
  /\ variant = "final_diagram"
  /\ Picked
  /\ error = "none"
  /\ PickedName \notin active_electrodes
  /\ Len(description_table) = 1
  /\ description_table[1].name \in active_electrodes

\* C18: in time_slider and integrated_code the figure holds exactly one
\* colorbar after the initial render and after every later update_plot
\* (slider moves, picks); no update adds a second one.
C18_OneColorbar ==
  variant \in {"time_slider", "integrated_code"} =>
    /\ colorbar
    /\ colorbars = 1

\* time_slider has rendered three times, the last time for a slider move,
\* and holds one colorbar
C18_Witness ==
  /\ variant = "time_slider"
  /\ event.type = "slider"
  /\ topomap.markers >= 3
  /\ topomap.contours = 1
  /\ colorbars = 1

====
